---- MODULE Spec2Model ----
(***************************************************************************)
(* PageRank (src/pagerank.py): the transition model, the sampling          *)
(* estimator and the iterative estimator.                                  *)
(*                                                                         *)
(* Python floats are modelled as exact rationals <<numerator, denominator>>*)
(* in lowest terms with a positive denominator, so that "sums to 1" and    *)
(* "below the threshold" are exact statements; rounding error of double    *)
(* precision arithmetic is outside the model.                              *)
(***************************************************************************)
EXTENDS Integers, FiniteSets, Sequences, TLC

\* ------------------------------------------------------------------------
\* Exact rational arithmetic (Python's float operators + - * / abs <).
\* ------------------------------------------------------------------------
Abs(i) == IF i < 0 THEN -i ELSE i

RECURSIVE GCD(_, _)
GCD(a, b) == IF b = 0 THEN a ELSE GCD(b, a % b)

\* n/d in lowest terms, d > 0
Rat(n, d) ==
    LET g == GCD(Abs(n), Abs(d))
        s == IF d < 0 THEN -1 ELSE 1
    IN  <<s * (n \div g), s * (d \div g)>>

Zero == <<0, 1>>
One == <<1, 1>>
Int2Rat(i) == <<i, 1>>

LCM(a, b) == (a \div GCD(a, b)) * b

RAdd(x, y) ==
    LET l == LCM(x[2], y[2])
    IN  Rat(x[1] * (l \div x[2]) + y[1] * (l \div y[2]), l)

RNeg(x) == <<-x[1], x[2]>>

RSub(x, y) == RAdd(x, RNeg(y))

RMul(x, y) ==
    LET a == Rat(x[1], y[2])
        b == Rat(y[1], x[2])
    IN  <<a[1] * b[1], a[2] * b[2]>>

\* x / y, y # 0 (Python raises ZeroDivisionError otherwise)
RDiv(x, y) == RMul(x, Rat(y[2], y[1]))

RAbs(x) == <<Abs(x[1]), x[2]>>

RLess(x, y) ==
    LET l == LCM(x[2], y[2])
    IN  x[1] * (l \div x[2]) < y[1] * (l \div y[2])

\* sum(f[p] for p in S)
RECURSIVE RSum(_, _)
RSum(f, S) ==
    IF S = {} THEN Zero
    ELSE LET p == CHOOSE q \in S : TRUE
         IN  RAdd(f[p], RSum(f, S \ {p}))

\* ------------------------------------------------------------------------
\* Inputs
\* ------------------------------------------------------------------------
\* Page identifiers (file names in crawl); Unknown is a page of no corpus.
Universe == {"A", "B", "C"}
Unknown == "Z"

\* What crawl returns: page -> set of other pages of the corpus it links
\* to (no self-links, no links out of the corpus), at least one page.
Corpora ==
    UNION { { c \in [K -> SUBSET K] : \A p \in K : p \notin c[p] }
            : K \in (SUBSET Universe) \ {{}} }

\* DAMPING = 0.85 and the ends and the middle of [0,1]
DAMPING == <<17, 20>>
Dampings == {Zero, <<1, 2>>, DAMPING, One}
\* iterate_pagerank: each pass multiplies the denominators of the exact
\* ranks by the damping's denominator times an out-degree, so 17/20 and
\* graphs of more than three pages leave the range of TLC's integers
\* before the change drops below the threshold
IterDampings == {Zero, <<1, 2>>, One}

\* largest sample count n
MaxSamples == 3

\* passes of the while loop of iterate_pagerank followed (the loop itself
\* has no bound)
MaxPasses == 24

Len0(S) == Cardinality(S)

\* ------------------------------------------------------------------------
\* transition_model
\* ------------------------------------------------------------------------
HasLinks(corpus, page) ==
    page \in DOMAIN corpus /\ Len0(corpus[page]) > 0

transition_model(corpus, page, damping_factor) ==
    LET num_pages == Len0(DOMAIN corpus)
        linked == IF HasLinks(corpus, page) THEN corpus[page] ELSE {}
        linked_prob == RDiv(damping_factor, Int2Rat(Len0(corpus[page])))
        uniform_prob == RDiv(RSub(One, damping_factor), Int2Rat(num_pages))
    IN  [p \in linked \cup DOMAIN corpus |->
            RAdd(IF p \in linked THEN linked_prob ELSE Zero, uniform_prob)]

\* ------------------------------------------------------------------------
\* State
\* ------------------------------------------------------------------------
VARIABLES
    op,              \* the function called
    corpus,          \* argument corpus
    damping_factor,  \* argument damping_factor
    n,               \* argument n of sample_pagerank
    last,            \* last key of the corpus dict in insertion order
    pc,              \* position in the called function
    page,            \* argument page / the walk's current page
    page_rank,       \* sample_pagerank: the counters
    i,               \* sample_pagerank: iterations of the for loop done
    ranks,           \* iterate_pagerank: ranks
    new_ranks,       \* iterate_pagerank: new_ranks
    total_diff,      \* iterate_pagerank: total_diff
    todo,            \* iterate_pagerank: pages the for loop has not visited
    passes,          \* iterate_pagerank: times the while loop reached line 133
    result           \* the value returned

vars == <<op, corpus, damping_factor, n, last, pc, page, page_rank, i,
          ranks, new_ranks, total_diff, todo, passes, result>>

args == <<op, corpus, damping_factor, n, last>>

None == <<>>
NoPage == "none"

num_pages == Len0(DOMAIN corpus)

Init ==
    /\ op \in {"transition_model", "sample_pagerank", "iterate_pagerank"}
    /\ corpus \in Corpora
    /\ damping_factor \in
         IF op = "iterate_pagerank" THEN IterDampings ELSE Dampings
    /\ n \in IF op = "sample_pagerank" THEN (-1)..MaxSamples ELSE {0}
    /\ last \in IF op = "sample_pagerank" THEN DOMAIN corpus ELSE {NoPage}
    /\ page \in IF op = "transition_model"
                THEN DOMAIN corpus \cup {Unknown} ELSE {NoPage}
    /\ pc = "start"
    /\ page_rank = None
    /\ i = 0
    /\ ranks = None
    /\ new_ranks = None
    /\ total_diff = Zero
    /\ todo = {}
    /\ passes = 0
    /\ result = None

\* ------------------------------------------------------------------------
\* transition_model called on its own
\* ------------------------------------------------------------------------
TransitionModel ==
    /\ op = "transition_model" /\ pc = "start"
    /\ result' = transition_model(corpus, page, damping_factor)
    /\ pc' = "done"
    /\ UNCHANGED <<args, passes, page, page_rank, i, ranks, new_ranks, total_diff, todo>>

\* ------------------------------------------------------------------------
\* sample_pagerank
\* ------------------------------------------------------------------------
\* lines 88-90: seed the counters, pick the start page
SampleStart ==
    /\ op = "sample_pagerank" /\ pc = "start"
    /\ page_rank' = [p \in DOMAIN corpus |-> RDiv(One, Int2Rat(num_pages))]
    /\ page' \in DOMAIN corpus
    /\ i' = 0
    /\ pc' = "walk"
    /\ UNCHANGED <<args, passes, ranks, new_ranks, total_diff, todo, result>>

\* random.choices(keys, weights): the keys it can return
Drawable(weights) == {p \in DOMAIN weights : RLess(Zero, weights[p])}

\* the counter overwritten instead of incremented
VisitAssign(pr, p) == [pr EXCEPT ![p] = One]

\* line 97: page_rank[page] += 1
Visit(pr, p) == [pr EXCEPT ![p] = RAdd(@, One)]

\* lines 92-97, one iteration of the for loop, some weight positive
SampleStep ==
    /\ op = "sample_pagerank" /\ pc = "walk" /\ i < n
    /\ LET transition_probs == transition_model(corpus, page, damping_factor)
       IN  \E next \in Drawable(transition_probs) :
             /\ page' = next
             /\ page_rank' = Visit(page_rank, next)
    /\ i' = i + 1
    /\ UNCHANGED <<args, passes, pc, ranks, new_ranks, total_diff, todo, result>>

\* line 94 with every weight zero: random.choices raises ValueError
\* ("Total of weights must be greater than zero", Python 3.9 and later)
SampleDrawError ==
    /\ op = "sample_pagerank" /\ pc = "walk" /\ i < n
    /\ Drawable(transition_model(corpus, page, damping_factor)) = {}
    /\ pc' = "error"
    /\ UNCHANGED <<args, passes, page, page_rank, i, ranks, new_ranks, total_diff,
                   todo, result>>

\* line 94 with every weight zero, before Python 3.9: bisect over the
\* all-zero cumulative weights always lands on the last key
SampleDrawLast ==
    /\ op = "sample_pagerank" /\ pc = "walk" /\ i < n
    /\ Drawable(transition_model(corpus, page, damping_factor)) = {}
    /\ page' = last
    /\ page_rank' = Visit(page_rank, last)
    /\ i' = i + 1
    /\ UNCHANGED <<args, passes, pc, ranks, new_ranks, total_diff, todo, result>>

\* line 100
TotalRank(pr) == RSum(pr, DOMAIN pr)

\* line 101
Normalize(pr) == [p \in DOMAIN pr |-> RDiv(pr[p], TotalRank(pr))]

\* lines 99-103, the for loop is over (at once when n < 1)
SampleReturn ==
    /\ op = "sample_pagerank" /\ pc = "walk" /\ ~(i < n)
    /\ result' = Normalize(page_rank)
    /\ pc' = "done"
    /\ UNCHANGED <<args, passes, page, page_rank, i, ranks, new_ranks, total_diff, todo>>

\* ------------------------------------------------------------------------
\* iterate_pagerank
\* ------------------------------------------------------------------------
\* line 119
threshold == <<1, 2000>>

\* lines 116-118 and the first pass through lines 122-123
IterateStart ==
    /\ op = "iterate_pagerank" /\ pc = "start"
    /\ ranks' = [p \in DOMAIN corpus |-> RDiv(One, Int2Rat(num_pages))]
    /\ new_ranks' = None
    /\ total_diff' = Zero
    /\ todo' = DOMAIN corpus
    /\ pc' = "update"
    /\ UNCHANGED <<args, passes, page, page_rank, i, result>>

\* the update done in place: pages already updated are read from new_ranks
RanksReadInPlace(rs, nrs) ==
    [q \in DOMAIN rs |-> IF q \in DOMAIN nrs THEN nrs[q] ELSE rs[q]]

\* line 127 reads ranks, the vector of the previous iteration; new_ranks is
\* a separate dict (line 122) that lines 125-131 only write
RanksRead(rs, nrs) == rs

\* line 127
link_sum(rs, p) ==
    LET linking == {q \in DOMAIN corpus : p \in corpus[q]}
        term == [q \in linking |-> RDiv(rs[q], Int2Rat(Len0(corpus[q])))]
    IN  RSum(term, linking)

\* lines 126-128
new_rank(rs, p) ==
    RAdd(RDiv(RSub(One, damping_factor), Int2Rat(num_pages)),
         RMul(damping_factor, link_sum(rs, p)))

\* the change of a page taken with its sign
PageDiffSigned(new, old) == RSub(new, old)

\* line 131, one page's term
PageDiff(new, old) == RAbs(RSub(new, old))

\* lines 125-131, one iteration of the for loop
IteratePage ==
    /\ op = "iterate_pagerank" /\ pc = "update"
    /\ \E p \in todo :
         LET nr == new_rank(RanksRead(ranks, new_ranks), p)
         IN  /\ new_ranks' = [q \in DOMAIN new_ranks \cup {p} |->
                                IF q = p THEN nr ELSE new_ranks[q]]
             /\ total_diff' = RAdd(total_diff, PageDiff(nr, ranks[p]))
             /\ todo' = todo \ {p}
             /\ page' = p
    /\ UNCHANGED <<args, passes, pc, page_rank, i, ranks, result>>

\* line 133
Converged(td) == RLess(td, threshold)

\* the vector of the final iteration returned
ReturnedNew(rs, nrs) == nrs

\* line 138: the vector the function returns after the break
Returned(rs, nrs) == rs

\* the replacement left out: the next iteration reads the same vector
ReplacedStale(rs, nrs) == rs

\* line 136: ranks = new_ranks
Replaced(rs, nrs) == nrs

\* lines 133-134 and 138: the for loop is over and the test succeeds
IterateReturn ==
    /\ op = "iterate_pagerank" /\ pc = "update" /\ todo = {}
    /\ Converged(total_diff)
    /\ result' = Returned(ranks, new_ranks)
    /\ passes' = passes + 1
    /\ pc' = "done"
    /\ UNCHANGED <<args, page, page_rank, i, ranks, new_ranks, total_diff, todo>>

\* lines 133, 136 and the next pass through lines 122-123
IterateRepeat ==
    /\ op = "iterate_pagerank" /\ pc = "update" /\ todo = {}
    /\ ~Converged(total_diff)
    /\ passes < MaxPasses
    /\ ranks' = Replaced(ranks, new_ranks)
    /\ new_ranks' = None
    /\ total_diff' = Zero
    /\ todo' = DOMAIN corpus
    /\ passes' = passes + 1
    /\ UNCHANGED <<args, pc, page, page_rank, i, result>>

\* ------------------------------------------------------------------------
\* Specifications
\* ------------------------------------------------------------------------
Next ==
    \/ TransitionModel
    \/ SampleStart
    \/ SampleStep
    \/ SampleDrawError
    \/ SampleDrawLast
    \/ SampleReturn
    \/ IterateStart
    \/ IteratePage
    \/ IterateReturn
    \/ IterateRepeat

Spec == Init /\ [][Next]_vars

\* ------------------------------------------------------------------------
\* Properties
\* ------------------------------------------------------------------------
Sum(f) == RSum(f, DOMAIN f)

Uniform == Rat(1, num_pages)

IsSinkOrUnknown(p) == p \notin DOMAIN corpus \/ corpus[p] = {}

InLinks(p) == {q \in DOMAIN corpus : p \in corpus[q]}

\* the update rule of the iterative estimator, applied to a whole vector r
UpdateRule(r) ==
    [p \in DOMAIN corpus |->
        RAdd(Rat(damping_factor[2] - damping_factor[1],
                 damping_factor[2] * num_pages),
             RMul(damping_factor,
                  RSum([q \in InLinks(p) |->
                           Rat(r[q][1], r[q][2] * Cardinality(corpus[q]))],
                       InLinks(p))))]

\* sum over the pages of |a(p) - b(p)|
L1(a, b) ==
    RSum([p \in DOMAIN corpus |-> RAbs(RSub(a[p], b[p]))], DOMAIN corpus)

\* a graph without a cycle: its pages can be removed sink first
RECURSIVE Drains(_)
Drains(S) ==
    \/ S = {}
    \/ \E p \in S : corpus[p] \cap S = {} /\ Drains(S \ {p})

Acyclic == Drains(DOMAIN corpus)

Returned_transition == op = "transition_model" /\ pc = "done"
Returned_sample == op = "sample_pagerank" /\ pc = "done"
Returned_iterate == op = "iterate_pagerank" /\ pc = "done"

\* C1: for every damping strictly between 0 and 1 and every page argument
\* (linking page, sink, or page outside the graph) the distribution
\* transition_model returns has exactly the corpus pages as keys and its
\* values sum to 1.
C1_TransitionIsDistribution ==
    (Returned_transition /\ RLess(Zero, damping_factor)
                         /\ RLess(damping_factor, One))
        => /\ DOMAIN result = DOMAIN corpus
           /\ Sum(result) = One

\* C2: for a sink or a page that is not a key of the graph, transition_model
\* gives every corpus page exactly 1/N, whatever the damping factor.
C2_SinkIsUniform ==
    (Returned_transition /\ IsSinkOrUnknown(page))
        => \A p \in DOMAIN corpus : result[p] = Uniform

\* C3: the rank vector iterate_pagerank returns has exactly the corpus pages
\* as keys and its values sum to 1, with or without sinks in the graph.
C3_IterateSumsToOne ==
    Returned_iterate
        => /\ DOMAIN result = DOMAIN corpus
           /\ Sum(result) = One

\* C4: in sample_pagerank, after i steps of the walk the counters are over
\* exactly the corpus pages and sum to 1 + i, the current page is a corpus
\* page, and for n >= 1 the returned vector has exactly the corpus pages as
\* keys and sums to 1.
C4_SampleSumsToOne ==
    /\ (op = "sample_pagerank" /\ pc = "walk")
          => /\ DOMAIN page_rank = DOMAIN corpus
             /\ Sum(page_rank) = Int2Rat(1 + i)
             /\ page \in DOMAIN corpus
    /\ (Returned_sample /\ n >= 1)
          => /\ DOMAIN result = DOMAIN corpus
             /\ Sum(result) = One
             /\ Sum(page_rank) = Int2Rat(1 + n)
             /\ \A p \in DOMAIN corpus :
                    result[p] = RDiv(page_rank[p], Int2Rat(1 + n))

C4_Witness ==
    /\ Returned_sample /\ n >= 2 /\ num_pages = 3
    /\ \E p, q \in DOMAIN corpus : result[p] # result[q]

\* C5: sample_pagerank called with n < 1 fails with an error: it never
\* returns a rank vector.
C5_RejectsNonPositiveN ==
    (op = "sample_pagerank" /\ n < 1)
        => /\ pc # "done"
           /\ result = None

\* C6: the vector iterate_pagerank returns is a fixed point of the update
\* rule within the threshold: one more application of the rule moves it by
\* less than 0.0005 in total.
C6_FixedPointWithinThreshold ==
    Returned_iterate
        => RLess(L1(UpdateRule(result), result), threshold)

C6_Witness ==
    /\ Returned_iterate /\ num_pages = 3
    /\ result # [p \in DOMAIN corpus |-> Uniform]
    /\ L1(UpdateRule(result), result) # Zero

\* C7: with damping 1 iterate_pagerank terminates within a bounded number
\* of iterations on every acyclic graph (such a graph has a sink), for
\* instance {A: {B, C}, B: {C}, C: {}}: the while loop makes at most N + 1
\* passes, and the pass N + 1, if it comes to it, meets the stop test.
C7_TerminatesAtDampingOne ==
    (op = "iterate_pagerank" /\ damping_factor = One /\ Acyclic)
        => /\ passes <= num_pages + 1
           /\ (passes = num_pages + 1 => pc = "done")
           /\ (pc = "update" /\ todo = {} /\ passes = num_pages)
                 => Converged(total_diff)

C7_Witness ==
    /\ Returned_iterate /\ damping_factor = One /\ passes = num_pages + 1
    /\ corpus = [p \in {"A", "B", "C"} |->
                    IF p = "A" THEN {"B", "C"}
                    ELSE IF p = "B" THEN {"C"} ELSE {}]

\* C8 as stated: the vector returned is the one computed in the final
\* iteration.
C8_ReturnsNewVector ==
    Returned_iterate => result = new_ranks

\* C8 as amended: the stop test takes effect before the replacement, so the
\* vector returned is the one the final iteration read (the result of the
\* iteration before it, or the initial vector), and the vector computed in
\* the final iteration, less than the threshold away from it, is dropped.
C8_ReturnsPreviousVector ==
    Returned_iterate
        => /\ result = ranks
           /\ DOMAIN new_ranks = DOMAIN corpus
           /\ total_diff = L1(new_ranks, result)
           /\ RLess(total_diff, threshold)

C8_Witness ==
    Returned_iterate /\ result # new_ranks

\* C9: the walk of sample_pagerank never aborts, and from a sink every
\* corpus page can be drawn next, for every damping in [0,1].
C9_WalkNeverStuck ==
    op = "sample_pagerank"
        => /\ pc # "error"
           /\ (pc = "walk" /\ i < n /\ IsSinkOrUnknown(page))
                 => Drawable(transition_model(corpus, page, damping_factor))
                        = DOMAIN corpus

\* C10: every value of new_ranks is (1 - damping)/N + damping * the sum of
\* rank(q)/out_degree(q) over the pages q linking to p, with rank the
\* complete vector of the previous iteration.
C10_UpdateReadsPreviousVector ==
    (op = "iterate_pagerank" /\ pc = "update")
        => \A p \in DOMAIN new_ranks : new_ranks[p] = UpdateRule(ranks)[p]

C10_Witness ==
    /\ op = "iterate_pagerank" /\ pc = "update" /\ todo = {}
    /\ num_pages = 3
    /\ ranks # [p \in DOMAIN corpus |-> Uniform]
    /\ new_ranks # ranks
    /\ \E p \in DOMAIN corpus : corpus[p] = {}

====
